---------------------------- MODULE Spec2Model ----------------------------
(***************************************************************************)
(* A model of inflammation/models.py: the statistics functions over a 2D   *)
(* inflammation table (daily_mean, daily_max, daily_min, daily_std,        *)
(* patient_normalise, daily_above_threshold, attach_names) and the domain  *)
(* classes Observation, Patient and Doctor.                                *)
(*                                                                         *)
(* The table is a numpy array of float64.  Its entries are modelled as     *)
(* IEEE-754 binary64 values, computed bit for bit (round to nearest, ties  *)
(* to even, subnormals, overflow to infinity, NaN), so that the rounding   *)
(* of a sum or of a quotient is the rounding numpy performs.               *)
(***************************************************************************)
EXTENDS Integers, Sequences, FiniteSets

(***************************************************************************)
(* Natural numbers of any size.  TLC's integers are 32 bits wide and a     *)
(* binary64 significand has 53 bits, so a natural number is a sequence of  *)
(* limbs in base 2^15, least significant limb first, without leading zero  *)
(* limbs; zero is the empty sequence.                                      *)
(***************************************************************************)
LimbBits == 15

Base == 2^15

Pow2(k) == 2^k

RECURSIVE BNorm(_)
BNorm(a) ==
    IF a = <<>> THEN <<>>
    ELSE IF a[Len(a)] = 0 THEN BNorm(SubSeq(a, 1, Len(a) - 1))
    ELSE a

RECURSIVE BFromInt(_)
BFromInt(n) ==
    IF n = 0 THEN <<>> ELSE <<n % Base>> \o BFromInt(n \div Base)

RECURSIVE BAddC(_, _, _)
BAddC(a, b, c) ==
    IF a = <<>> /\ b = <<>> THEN (IF c = 0 THEN <<>> ELSE <<c>>)
    ELSE LET x == IF a = <<>> THEN 0 ELSE Head(a)
             y == IF b = <<>> THEN 0 ELSE Head(b)
             s == x + y + c
         IN  <<s % Base>> \o BAddC(IF a = <<>> THEN <<>> ELSE Tail(a),
                                   IF b = <<>> THEN <<>> ELSE Tail(b),
                                   s \div Base)

BAdd(a, b) == BAddC(a, b, 0)

\* a - b for a >= b, before the leading zero limbs are removed
RECURSIVE BSubC(_, _, _)
BSubC(a, b, c) ==
    IF a = <<>> THEN <<>>
    ELSE LET y == IF b = <<>> THEN 0 ELSE Head(b)
             d == Head(a) - y - c
         IN  <<IF d < 0 THEN d + Base ELSE d>>
                 \o BSubC(Tail(a), IF b = <<>> THEN <<>> ELSE Tail(b),
                          IF d < 0 THEN 1 ELSE 0)

BSub(a, b) == BNorm(BSubC(a, b, 0))

\* -1, 0 or 1 as a < b, a = b or a > b: the limbs compared from the top
RECURSIVE BCmpFrom(_, _, _)
BCmpFrom(a, b, i) ==
    IF i = 0 THEN 0
    ELSE IF a[i] < b[i] THEN -1
    ELSE IF a[i] > b[i] THEN 1
    ELSE BCmpFrom(a, b, i - 1)

BCmp(a, b) ==
    IF Len(a) < Len(b) THEN -1
    ELSE IF Len(a) > Len(b) THEN 1
    ELSE BCmpFrom(a, b, Len(a))

\* a * k + c for 0 <= k < Base
RECURSIVE BMulSmallC(_, _, _)
BMulSmallC(a, k, c) ==
    IF a = <<>> THEN (IF c = 0 THEN <<>> ELSE <<c>>)
    ELSE LET p == Head(a) * k + c
         IN  <<p % Base>> \o BMulSmallC(Tail(a), k, p \div Base)

BMulSmall(a, k) == IF k = 0 THEN <<>> ELSE BMulSmallC(a, k, 0)

BZeros(n) == [i \in 1..n |-> 0]

RECURSIVE BMul(_, _)
BMul(a, b) ==
    IF a = <<>> \/ b = <<>> THEN <<>>
    ELSE LET rest == BMul(a, Tail(b))
         IN  BAdd(BMulSmall(a, Head(b)),
                  IF rest = <<>> THEN <<>> ELSE <<0>> \o rest)

\* a * 2^k
BShl(a, k) ==
    IF a = <<>> THEN <<>>
    ELSE BZeros(k \div LimbBits) \o BMulSmall(a, Pow2(k % LimbBits))

\* the limbs of a \div d for 0 < d <= Base, most significant first, r the
\* remainder carried in from above
RECURSIVE BDivSmallFrom(_, _, _, _)
BDivSmallFrom(a, d, i, r) ==
    IF i = 0 THEN <<>>
    ELSE LET n == r * Base + a[i]
         IN  BDivSmallFrom(a, d, i - 1, n % d) \o <<n \div d>>

BDivSmall(a, d) == BNorm(BDivSmallFrom(a, d, Len(a), 0))

\* floor(a / 2^k)
BShr(a, k) ==
    LET drop == k \div LimbBits
    IN  IF drop >= Len(a) THEN <<>>
        ELSE BDivSmall(SubSeq(a, drop + 1, Len(a)), Pow2(k % LimbBits))

RECURSIVE IntBitLen(_)
IntBitLen(n) == IF n = 0 THEN 0 ELSE 1 + IntBitLen(n \div 2)

BBitLen(a) ==
    IF a = <<>> THEN 0 ELSE LimbBits * (Len(a) - 1) + IntBitLen(a[Len(a)])

\* bit i of a, bit 0 the least significant
BBit(a, i) ==
    LET l == i \div LimbBits + 1
    IN  IF l > Len(a) THEN 0 ELSE (a[l] \div Pow2(i % LimbBits)) % 2

BIsOdd(a) == a # <<>> /\ a[1] % 2 = 1

\* the number of trailing zero bits of a # 0
RECURSIVE IntTrailingZeros(_)
IntTrailingZeros(n) == IF n % 2 = 1 THEN 0 ELSE 1 + IntTrailingZeros(n \div 2)

RECURSIVE BTrailingZeros(_)
BTrailingZeros(a) ==
    IF Head(a) = 0 THEN LimbBits + BTrailingZeros(Tail(a))
    ELSE IntTrailingZeros(Head(a))

\* a mod 2^k
BLow(a, k) == BSub(a, BShl(BShr(a, k), k))

\* the largest digit t + x, 0 <= x < 2^(j+1), with d * (t + x) <= r
RECURSIVE BDigit(_, _, _, _)
BDigit(r, d, t, j) ==
    IF j < 0 THEN t
    ELSE LET c  == t + Pow2(j)
             le == BCmp(BMulSmall(d, c), r) <= 0
         IN  IF le THEN BDigit(r, d, c, j - 1) ELSE BDigit(r, d, t, j - 1)

\* quotient and remainder by d # 0 of the number the limbs i.. of a make, by
\* long division: the limbs above i are divided first, then limb i is
\* brought down
RECURSIVE BDivModFrom(_, _, _)
BDivModFrom(a, d, i) ==
    IF i > Len(a) THEN [q |-> <<>>, r |-> <<>>]
    ELSE LET p  == BDivModFrom(a, d, i + 1)
             r2 == BNorm(<<a[i]>> \o p.r)
             t  == BDigit(r2, d, 0, LimbBits - 1)
         IN  [q |-> BNorm(<<t>> \o p.q), r |-> BSub(r2, BMulSmall(d, t))]

BDivMod(a, d) == BDivModFrom(a, d, 1)

\* floor(sqrt(a)), one bit of the root at a time from the top: r holds the
\* bits above bit i, and bits i down to lo are decided
RECURSIVE BSqrtBits(_, _, _, _)
BSqrtBits(a, r, i, lo) ==
    IF i < lo THEN r
    ELSE LET c  == BAdd(r, BShl(<<1>>, i))
             le == BCmp(BMul(c, c), a) <= 0
         IN  IF le THEN BSqrtBits(a, c, i - 1, lo) ELSE BSqrtBits(a, r, i - 1, lo)

\* the bits of limbs l, l-1, .., 0 of the root
RECURSIVE BSqrtFrom(_, _, _)
BSqrtFrom(a, r, l) ==
    IF l < 0 THEN r
    ELSE LET r2 == BSqrtBits(a, r, LimbBits * l + LimbBits - 1, LimbBits * l)
         IN  IF r2 = r THEN BSqrtFrom(a, r, l - 1) ELSE BSqrtFrom(a, r2, l - 1)

BSqrt(a) == BSqrtFrom(a, <<>>, (Len(a) + 1) \div 2)


(***************************************************************************)
(* IEEE-754 binary64.  A value is NaN, an infinity with sign s (0 for +,   *)
(* 1 for -), or the finite number (-1)^s * m * 2^e with m a natural number *)
(* kept odd (or zero, then s = 0 and e = 0), so that equal numbers are     *)
(* equal values.  The negative zero is not represented: no function of the *)
(* module produces one from the tables it is given.                        *)
(***************************************************************************)
NaN == [k |-> "nan"]

Inf(s) == [k |-> "inf", s |-> s]

FZero == [k |-> "fin", s |-> 0, m |-> <<>>, e |-> 0]

IsNaN(x) == x.k = "nan"

IsInf(x) == x.k = "inf"

IsFin(x) == x.k = "fin"

IsZero(x) == x.k = "fin" /\ x.m = <<>>

\* the finite value (-1)^s * m * 2^e, no rounding
FCanon(s, m, e) ==
    IF m = <<>> THEN FZero
    ELSE LET z == BTrailingZeros(m)
         IN  [k |-> "fin", s |-> s, m |-> BShr(m, z), e |-> e + z]

\* significand width, smallest exponent of a subnormal's last bit, and the
\* exponent from which a value overflows
SigBits == 53

MinExp == 0 - 1074

MaxExp == 1024

\* (-1)^s * (m + f) * 2^e rounded to nearest, ties to even, where 0 < f < 1
\* when sticky and f = 0 otherwise; with sticky, m has more than SigBits bits
FRound(s, m, e, sticky) ==
    LET over == BBitLen(m) - SigBits
        sub  == MinExp - e
        drop == IF over > sub THEN over ELSE sub
    IN  IF drop <= 0
        THEN IF BBitLen(m) + e > MaxExp THEN Inf(s) ELSE FCanon(s, m, e)
        ELSE IF drop > BBitLen(m) THEN FZero
        ELSE LET q    == BShr(m, drop)
                 rem  == BLow(m, drop)
                 half == BShl(<<1>>, drop - 1)
                 c    == BCmp(rem, half)
                 up   == c > 0 \/ (c = 0 /\ (sticky \/ BIsOdd(q)))
                 r    == IF up THEN BAdd(q, <<1>>) ELSE q
             IN  IF BBitLen(r) + e + drop > MaxExp THEN Inf(s)
                 ELSE FCanon(s, r, e + drop)

\* the float64 of a small integer
FInt(n) == IF n < 0 THEN FCanon(1, BFromInt(0 - n), 0) ELSE FCanon(0, BFromInt(n), 0)

FNeg(x) ==
    IF IsNaN(x) THEN NaN
    ELSE IF IsInf(x) THEN Inf(1 - x.s)
    ELSE IF IsZero(x) THEN x
    ELSE [x EXCEPT !.s = 1 - x.s]

\* the exponent of the leading bit of a finite x # 0, plus one
FTop(x) == BBitLen(x.m) + x.e

\* -1, 0, 1 as |x| < |y|, |x| = |y|, |x| > |y|, for finite x # 0 and y # 0
FCmpMag(x, y) ==
    IF FTop(x) < FTop(y) THEN -1
    ELSE IF FTop(x) > FTop(y) THEN 1
    ELSE LET e == IF x.e < y.e THEN x.e ELSE y.e
         IN  BCmp(BShl(x.m, x.e - e), BShl(y.m, y.e - e))

\* -1, 0, 1 as x < y, x = y, x > y, for x and y not NaN
FCmp(x, y) ==
    LET sx == IF IsZero(x) THEN 0 ELSE IF x.s = 1 THEN -1 ELSE 1
        sy == IF IsZero(y) THEN 0 ELSE IF y.s = 1 THEN -1 ELSE 1
    IN  IF sx # sy THEN (IF sx < sy THEN -1 ELSE 1)
        ELSE IF sx = 0 THEN 0
        ELSE IF IsInf(x) /\ IsInf(y) THEN 0
        ELSE IF IsInf(x) THEN sx
        ELSE IF IsInf(y) THEN 0 - sx
        ELSE sx * FCmpMag(x, y)

\* the comparisons of numpy: any comparison with NaN is false
FLt(x, y) == ~IsNaN(x) /\ ~IsNaN(y) /\ FCmp(x, y) < 0

FGt(x, y) == ~IsNaN(x) /\ ~IsNaN(y) /\ FCmp(x, y) > 0

FAdd(x, y) ==
    IF IsNaN(x) \/ IsNaN(y) THEN NaN
    ELSE IF IsInf(x) /\ IsInf(y) THEN (IF x.s = y.s THEN x ELSE NaN)
    ELSE IF IsInf(x) THEN x
    ELSE IF IsInf(y) THEN y
    ELSE IF IsZero(x) THEN y
    ELSE IF IsZero(y) THEN x
    \* an operand below a quarter of the other's last place does not change it
    ELSE IF FTop(x) - FTop(y) > SigBits + 2 THEN x
    ELSE IF FTop(y) - FTop(x) > SigBits + 2 THEN y
    ELSE LET e  == IF x.e < y.e THEN x.e ELSE y.e
             mx == BShl(x.m, x.e - e)
             my == BShl(y.m, y.e - e)
             c  == BCmp(mx, my)
         IN  IF x.s = y.s THEN FRound(x.s, BAdd(mx, my), e, FALSE)
             ELSE IF c = 0 THEN FZero
             ELSE IF c > 0 THEN FRound(x.s, BSub(mx, my), e, FALSE)
             ELSE FRound(y.s, BSub(my, mx), e, FALSE)

FSub(x, y) == FAdd(x, FNeg(y))

FMul(x, y) ==
    IF IsNaN(x) \/ IsNaN(y) THEN NaN
    ELSE IF (IsInf(x) /\ IsZero(y)) \/ (IsZero(x) /\ IsInf(y)) THEN NaN
    ELSE IF IsInf(x) \/ IsInf(y) THEN Inf((x.s + y.s) % 2)
    ELSE FRound((x.s + y.s) % 2, BMul(x.m, y.m), x.e + y.e, FALSE)

FDiv(x, y) ==
    IF IsNaN(x) \/ IsNaN(y) THEN NaN
    ELSE IF IsInf(x) THEN (IF IsInf(y) THEN NaN ELSE Inf((x.s + y.s) % 2))
    ELSE IF IsInf(y) THEN FZero
    ELSE IF IsZero(y) THEN (IF IsZero(x) THEN NaN ELSE Inf(x.s))
    ELSE IF IsZero(x) THEN FZero
    ELSE LET need == SigBits + 2 + BBitLen(y.m) - BBitLen(x.m)
             sh   == IF need > 0 THEN need ELSE 0
             qr   == BDivMod(BShl(x.m, sh), y.m)
         IN  FRound((x.s + y.s) % 2, qr.q, x.e - y.e - sh, qr.r # <<>>)

FSqrt(x) ==
    IF IsNaN(x) THEN NaN
    ELSE IF IsZero(x) THEN FZero
    ELSE IF x.s = 1 THEN NaN
    ELSE IF IsInf(x) THEN x
    ELSE LET need == 2 * (SigBits + 2) - BBitLen(x.m)
             sh0  == IF need > 0 THEN need ELSE 0
             sh   == IF (x.e - sh0) % 2 = 0 THEN sh0 ELSE sh0 + 1
             n    == BShl(x.m, sh)
             r    == BSqrt(n)
         IN  FRound(0, r, (x.e - sh) \div 2, BMul(r, r) # n)


\* the float64 nearest to 0.1
Tenth == FDiv(FInt(1), FInt(10))

(***************************************************************************)
(* The inflammation table: a 2D array, a sequence of rows (patients), each *)
(* a sequence of entries (days).  Every operation below either returns a   *)
(* value or raises an exception, and never both.                           *)
(***************************************************************************)
Return(v) == [exc |-> "none", value |-> <<v>>]

Raise(e) == [exc |-> e, value |-> <<>>]

NoResult == [exc |-> "pending", value |-> <<>>]

NRows(data) == Len(data)

NCols(data) == Len(data[1])

Column(data, j) == [i \in 1..NRows(data) |-> data[i][j]]

\* np.maximum and np.minimum: NaN if either operand is NaN
Maximum(x, y) ==
    IF IsNaN(x) \/ IsNaN(y) THEN NaN ELSE IF FLt(x, y) THEN y ELSE x

Minimum(x, y) ==
    IF IsNaN(x) \/ IsNaN(y) THEN NaN ELSE IF FLt(y, x) THEN y ELSE x

\* np.fmax: a NaN operand is ignored, NaN only if both are NaN
Fmax(x, y) ==
    IF IsNaN(x) THEN y ELSE IF IsNaN(y) THEN x ELSE IF FLt(x, y) THEN y ELSE x

\* the function nested in daily_above_threshold
count_above_threshold(a, b) == IF b THEN a + 1 ELSE a

\* the binary functions that are reduced, by name
Apply(f, a, b) ==
    CASE f = "add"     -> FAdd(a, b)
      [] f = "maximum" -> Maximum(a, b)
      [] f = "minimum" -> Minimum(a, b)
      [] f = "fmax"    -> Fmax(a, b)
      [] f = "count_above_threshold" -> count_above_threshold(a, b)

\* functools.reduce(f, xs, init), and a ufunc's reduce along an axis: the
\* elements are combined from the left
RECURSIVE Reduce(_, _, _)
Reduce(f, xs, init) ==
    IF xs = <<>> THEN init
    ELSE Reduce(f, Tail(xs), Apply(f, init, Head(xs)))

\* np.add.reduce along a column of fewer than 8 rows: the rows are added in
\* order, starting from the identity 0
Sum(xs) == Reduce("add", xs, FZero)

\* a slip: axis=1 in place of axis=0, the mean of each row
MeanAxis1(data) ==
    [i \in 1..NRows(data) |-> FDiv(Sum(data[i]), FInt(NCols(data)))]

\* np.mean(data, axis=0): the column sum divided by the number of rows
MeanAxis0(data) ==
    [j \in 1..NCols(data) |-> FDiv(Sum(Column(data, j)), FInt(NRows(data)))]

daily_mean(data) == Return(MeanAxis0(data))

daily_max(data) ==
    Return([j \in 1..NCols(data) |->
               Reduce("maximum", Tail(Column(data, j)), data[1][j])])

daily_min(data) ==
    Return([j \in 1..NCols(data) |->
               Reduce("minimum", Tail(Column(data, j)), data[1][j])])

\* np.std(data, axis=0): the square root of the mean of the squared
\* deviations from the column mean, the divisor being the number of rows
StdAxis0(data) ==
    LET arrmean == MeanAxis0(data)
        x(j)    == [i \in 1..NRows(data) |-> FSub(data[i][j], arrmean[j])]
        sq(j)   == [i \in 1..NRows(data) |-> FMul(x(j)[i], x(j)[i])]
    IN  [j \in 1..NCols(data) |->
            FSqrt(FDiv(Sum(sq(j)), FInt(NRows(data))))]

daily_std(data) == Return(StdAxis0(data))

\* a slip: np.all in place of np.any
AllNegative(data) ==
    \A i \in 1..NRows(data) : \A j \in 1..NCols(data) : FLt(data[i][j], FZero)

\* np.any(data < 0)
AnyNegative(data) ==
    \E i \in 1..NRows(data) : \E j \in 1..NCols(data) : FLt(data[i][j], FZero)

\* a slip: np.max in place of np.nanmax, a NaN entry makes the maximum NaN
MaxRow(r) == Reduce("maximum", Tail(r), Head(r))

\* np.nanmax(data, axis=1): the maximum of each row, NaN entries ignored; a
\* row of NaN only has the maximum NaN
NanMaxRow(r) == Reduce("fmax", Tail(r), Head(r))

NanMaxAxis1(data) == [i \in 1..NRows(data) |-> NanMaxRow(data[i])]

\* data / max_data[:, np.newaxis]: each row divided by its own maximum
DivideRows(data, max_data) ==
    [i \in 1..NRows(data) |->
        [j \in 1..NCols(data) |-> FDiv(data[i][j], max_data[i])]]

\* normalised[np.isnan(normalised)] = 0
ZeroNaN(t) ==
    [i \in 1..NRows(t) |->
        [j \in 1..NCols(t) |-> IF IsNaN(t[i][j]) THEN FZero ELSE t[i][j]]]

\* normalised[normalised < 0] = 0
ZeroNegative(t) ==
    [i \in 1..NRows(t) |->
        [j \in 1..NCols(t) |-> IF FLt(t[i][j], FZero) THEN FZero ELSE t[i][j]]]

patient_normalise(data) ==
    IF AnyNegative(data) THEN Raise("ValueError")
    ELSE LET max_data   == NanMaxAxis1(data)
             normalised == DivideRows(data, max_data)
         IN  Return(ZeroNegative(ZeroNaN(normalised)))

\* a slip: an index check that refuses the negative indexes
NonNegativeIndex(row, data) == 0 <= row /\ row < NRows(data)

\* data[row, ]: row counts from the end when negative; outside -P..P-1 it is
\* an IndexError
ValidIndex(row, data) == 0 - NRows(data) <= row /\ row < NRows(data)

GetRow(row, data) ==
    IF row < 0 THEN data[row + NRows(data) + 1] ELSE data[row + 1]

\* a slip: >= in place of >
AtOrAbove(r, threshold) ==
    [j \in 1..Len(r) |-> FGt(r[j], threshold) \/ r[j] = threshold]

\* map(lambda x: x > threshold, ...)
Above(r, threshold) == [j \in 1..Len(r) |-> FGt(r[j], threshold)]

daily_above_threshold(row, data, threshold) ==
    IF ~ValidIndex(row, data) THEN Raise("IndexError")
    ELSE Return(Reduce("count_above_threshold",
                       Above(GetRow(row, data), threshold), 0))

\* a slip: no check of the lengths
NoAssert(data, names) == TRUE

\* assert len(data) == len(names)
AssertSameLength(data, names) == Len(data) = Len(names)

\* zip stops at the end of the shorter of its two arguments
ZipRecords(data, names) ==
    [i \in 1..(IF Len(data) < Len(names) THEN Len(data) ELSE Len(names)) |->
        [name |-> names[i], data |-> data[i]]]

attach_names(data, names) ==
    IF ~AssertSameLength(data, names) THEN Raise("AssertionError")
    ELSE Return(ZipRecords(data, names))


(***************************************************************************)
(* The domain classes.  Observation is a record of its two fields; Patient *)
(* holds the list observations; Doctor holds the list patients.  An        *)
(* omitted day (day=None) is the empty sequence and a given day d is <<d>>.*)
(***************************************************************************)
None == <<>>

Observation(day, value) == [day |-> day, value |-> value]

\* a slip: the number of observations in place of the last day plus one
ObservationDayByCount(obs, day) ==
    IF day = None THEN Len(obs) ELSE day[1]

\* a slip: the first observation (index 0) in place of the last (index -1)
ObservationDayFromFirst(obs, day) ==
    IF day = None
    THEN IF obs # <<>> THEN obs[1].day + 1 ELSE 0
    ELSE day[1]

\* a slip: "if not day" in place of "if day is None", day 0 taken as omitted
ObservationDayFalsy(obs, day) ==
    IF day = None \/ day = <<0>>
    THEN IF obs # <<>> THEN obs[Len(obs)].day + 1 ELSE 0
    ELSE day[1]

\* lines 131-136: the day of the new observation
ObservationDay(obs, day) ==
    IF day = None
    THEN IF obs # <<>> THEN obs[Len(obs)].day + 1 ELSE 0
    ELSE day[1]

\* a slip: an element already in the list is not added again
AppendIfAbsent(list, x) ==
    IF \E i \in 1..Len(list) : list[i] = x THEN list ELSE Append(list, x)

\* self.observations.append(new_observation); self.patients.append(p)
ListAppend(list, x) == Append(list, x)

(***************************************************************************)
(* Bounds of the model.                                                    *)
(***************************************************************************)
\* the largest number of entries of a table
MaxCells == 4

\* the largest threshold tried
MaxThreshold == 2

\* the largest number of add_observation calls on the patient
MaxObs == 3

\* explicit days run over 0..MaxDay and 100
MaxDay == 1

\* the largest number of add_patient calls on the doctor
MaxPatients == 4

\* the number of Patient objects there are to add
NumPatients == 3

Shapes ==
    {sh \in (1..MaxCells) \X (1..MaxCells) : sh[1] * sh[2] <= MaxCells}

\* the tables of every shape with entries in V
Tables(V) == UNION {[1..sh[1] -> [1..sh[2] -> V]] : sh \in Shapes}

NormaliseEntries == {NaN, Inf(0), FInt(-1), FZero, FInt(1), FInt(3)}

StatsEntries == {FInt(-1), FZero, FInt(1), Tenth}

ThresholdEntries == {NaN, FInt(1), FInt(2), FInt(3)}

ExampleTable ==
    <<  <<FInt(1), FInt(2), FInt(3)>>, <<FInt(4), FInt(5), FInt(6)>>  >>

Thresholds == {FInt(n) : n \in 0..MaxThreshold}

RowIndexes == (0 - MaxCells - 1)..(MaxCells + 1)

AttachEntries == {FZero, FInt(1)}

\* attach_names also takes a table without rows
AttachTables == Tables(AttachEntries) \cup {<<>>}

Names == {"Alice", "Bob"}

NameLists == UNION {[1..n -> Names] : n \in 0..MaxCells}

ObservationValues == {5, 10, 20}

DayArgs == {None} \cup {<<d>> : d \in (0..MaxDay) \cup {100}}

PatientObjects == 1..NumPatients

(***************************************************************************)
(* State.  pc, fn and the arguments data, names, row, threshold describe   *)
(* one call of a function of the statistics module and result its outcome. *)
(* observations is Patient.observations, calls the add_observation calls   *)
(* made so far and returned the value the last one returned.  patients is  *)
(* Doctor.patients and added the arguments of the add_patient calls so far.*)
(***************************************************************************)
VARIABLES pc, fn, data, names, row, threshold, result,
          observations, calls, returned, patients, added

callVars == <<pc, fn, data, names, row, threshold, result>>

patientVars == <<observations, calls, returned>>

doctorVars == <<patients, added>>

vars == <<pc, fn, data, names, row, threshold, result,
          observations, calls, returned, patients, added>>

NoCall ==
    /\ pc = "start" /\ fn = "none" /\ data = <<>> /\ names = <<>>
    /\ row = 0 /\ threshold = FZero /\ result = NoResult

NoPatient == observations = <<>> /\ calls = <<>> /\ returned = None

NoDoctor == patients = <<>> /\ added = <<>>

\* a call of a function on the table: the arguments stay, the outcome is set
Call(f, r) ==
    /\ pc = "start"
    /\ pc' = "done"
    /\ fn' = f
    /\ result' = r
    /\ UNCHANGED <<data, names, row, threshold, patientVars, doctorVars>>

(***************************************************************************)
(* patient_normalise on every table of the bounds.                         *)
(***************************************************************************)
NormaliseInit ==
    /\ pc = "start" /\ fn = "none" /\ result = NoResult
    /\ data \in Tables(NormaliseEntries)
    /\ names = <<>> /\ row = 0 /\ threshold = FZero
    /\ NoPatient /\ NoDoctor

CallPatientNormalise == Call("patient_normalise", patient_normalise(data))

NormaliseNext == CallPatientNormalise

NormaliseSpec == NormaliseInit /\ [][NormaliseNext]_vars

(***************************************************************************)
(* daily_mean, daily_max, daily_min and daily_std on every table.          *)
(***************************************************************************)
StatsInit ==
    /\ pc = "start" /\ fn = "none" /\ result = NoResult
    /\ data \in Tables(StatsEntries)
    /\ names = <<>> /\ row = 0 /\ threshold = FZero
    /\ NoPatient /\ NoDoctor

CallDailyMean == Call("daily_mean", daily_mean(data))

CallDailyMax == Call("daily_max", daily_max(data))

CallDailyMin == Call("daily_min", daily_min(data))

CallDailyStd == Call("daily_std", daily_std(data))

StatsNext == CallDailyMean \/ CallDailyMax \/ CallDailyMin \/ CallDailyStd

StatsSpec == StatsInit /\ [][StatsNext]_vars

(***************************************************************************)
(* daily_above_threshold on every table, row index and threshold.          *)
(***************************************************************************)
ThresholdInit ==
    /\ pc = "start" /\ fn = "none" /\ result = NoResult
    /\ data \in Tables(ThresholdEntries) \cup {ExampleTable}
    /\ row \in RowIndexes
    /\ threshold \in Thresholds
    /\ names = <<>>
    /\ NoPatient /\ NoDoctor

CallDailyAboveThreshold ==
    Call("daily_above_threshold", daily_above_threshold(row, data, threshold))

ThresholdNext == CallDailyAboveThreshold

ThresholdSpec == ThresholdInit /\ [][ThresholdNext]_vars

(***************************************************************************)
(* attach_names on every table and list of names.                          *)
(***************************************************************************)
AttachInit ==
    /\ pc = "start" /\ fn = "none" /\ result = NoResult
    /\ data \in AttachTables
    /\ names \in NameLists
    /\ row = 0 /\ threshold = FZero
    /\ NoPatient /\ NoDoctor

CallAttachNames == Call("attach_names", attach_names(data, names))

AttachNext == CallAttachNames

AttachSpec == AttachInit /\ [][AttachNext]_vars

(***************************************************************************)
(* A Patient from its construction on: any add_observation calls.          *)
(***************************************************************************)
PatientInit == NoCall /\ NoPatient /\ NoDoctor

add_observation(value, day) ==
    LET new_observation == Observation(ObservationDay(observations, day), value)
    IN  /\ Len(calls) < MaxObs
        /\ observations' = ListAppend(observations, new_observation)
        /\ returned' = <<new_observation>>
        /\ calls' = Append(calls, [value |-> value, day |-> day])
        /\ UNCHANGED <<callVars, doctorVars>>

AddObservation ==
    \E value \in ObservationValues : \E day \in DayArgs :
        add_observation(value, day)

PatientNext == AddObservation

Spec == PatientInit /\ [][PatientNext]_vars

(***************************************************************************)
(* A Doctor from its construction on: any add_patient calls.               *)
(***************************************************************************)
DoctorInit == NoCall /\ NoPatient /\ NoDoctor

add_patient(p) ==
    /\ Len(added) < MaxPatients
    /\ patients' = ListAppend(patients, p)
    /\ added' = Append(added, p)
    /\ UNCHANGED <<callVars, patientVars>>

AddPatient == \E p \in PatientObjects : add_patient(p)

DoctorNext == AddPatient

DoctorSpec == DoctorInit /\ [][DoctorNext]_vars


(***************************************************************************)
(* Properties.  What a property says of a table is stated on the entries   *)
(* themselves, not through the operators the functions are built from.     *)
(***************************************************************************)
Cells(t) == {<<i, j>> : i \in 1..NRows(t), j \in 1..NCols(t)}

IsNegative(x) == (IsInf(x) \/ IsFin(x)) /\ ~IsZero(x) /\ x.s = 1

IsPositiveFinite(x) == IsFin(x) /\ ~IsZero(x) /\ x.s = 0

HasNegativeEntry(t) == \E c \in Cells(t) : IsNegative(t[c[1]][c[2]])

FOne == FInt(1)

\* 0 <= x <= 1
InUnitInterval(x) == IsFin(x) /\ ~IsNegative(x) /\ ~FGt(x, FOne)

SameShape(t, u) ==
    /\ NRows(t) = NRows(u)
    /\ \A i \in 1..NRows(t) : Len(t[i]) = Len(u[i])

\* entry j is a number of the row r and no number of r is greater
IsRowMaximum(r, j) ==
    ~IsNaN(r[j]) /\ \A k \in 1..Len(r) : ~FGt(r[k], r[j])

RowAllZero(r) == \A j \in 1..Len(r) : IsZero(r[j])

\* C1: patient_normalise on a table with a negative entry anywhere raises
\* ValueError and returns no table.
C1_NegativeEntryRaises ==
    (pc = "done" /\ HasNegativeEntry(data)) => result = Raise("ValueError")

\* a table whose only negative entry is the last one of its second row, after
\* positive entries and a NaN, has been refused
C1_Witness ==
    /\ pc = "done"
    /\ NRows(data) = 2 /\ NCols(data) = 2
    /\ IsPositiveFinite(data[1][1]) /\ IsNaN(data[1][2])
    /\ IsPositiveFinite(data[2][1]) /\ IsNegative(data[2][2])
    /\ result.exc = "ValueError" /\ result.value = <<>>

HasInfiniteEntry(t) == \E c \in Cells(t) : IsInf(t[c[1]][c[2]])

\* C2 as claimed, on the tables whose entries are finite numbers or NaN: on a
\* table without negative entries every entry of the result is in [0, 1], the
\* entries holding a row's maximum become 1 unless the whole row is 0, and
\* then the whole result row is 0.
C2_AsClaimed ==
    (pc = "done" /\ ~HasNegativeEntry(data) /\ ~HasInfiniteEntry(data)) =>
        /\ result.exc = "none"
        /\ LET out == result.value[1]
           IN  /\ SameShape(out, data)
               /\ \A c \in Cells(data) :
                     LET i == c[1]
                         j == c[2]
                     IN  /\ InUnitInterval(out[i][j])
                         /\ IF RowAllZero(data[i]) THEN IsZero(out[i][j])
                            ELSE IsRowMaximum(data[i], j) => out[i][j] = FOne

\* C2 amended: on a table without negative entries every entry of the result
\* is in [0, 1] and a NaN entry becomes 0; in a row whose maximum over its
\* numbers is positive and finite the entries holding it become 1; in every
\* other row (numbers all 0, NaN only, or a maximum of +infinity) the whole
\* result row is 0.
C2_NormalisedRange ==
    (pc = "done" /\ ~HasNegativeEntry(data)) =>
        /\ result.exc = "none"
        /\ LET out == result.value[1]
           IN  /\ SameShape(out, data)
               /\ \A c \in Cells(data) :
                     LET i == c[1]
                         j == c[2]
                     IN  /\ InUnitInterval(out[i][j])
                         /\ IsNaN(data[i][j]) => IsZero(out[i][j])
                         /\ IF \E k \in 1..NCols(data) :
                                  /\ IsRowMaximum(data[i], k)
                                  /\ IsPositiveFinite(data[i][k])
                            THEN IsRowMaximum(data[i], j) => out[i][j] = FOne
                            ELSE IsZero(out[i][j])

\* a row of 3 and 1, whose maximum became 1 and whose smaller number a proper
\* fraction, above a row of 0 and NaN that became 0
C2_Witness ==
    /\ pc = "done"
    /\ data = << <<FInt(3), FInt(1)>>, <<FZero, NaN>> >>
    /\ result.exc = "none"
    /\ result.value[1][1][1] = FOne
    /\ FGt(result.value[1][1][2], FZero) /\ FLt(result.value[1][1][2], FOne)
    /\ RowAllZero(result.value[1][2])


Constant(n, v) == [j \in 1..n |-> v]

IsUniform(t, v) == \A c \in Cells(t) : t[c[1]][c[2]] = v

\* the multiples v, 2v, .., n*v of a finite v are float64 numbers, so that
\* adding v n times rounds nowhere
ExactMultiples(v, n) ==
    \A k \in 1..n :
        FRound(v.s, BMulSmall(v.m, k), v.e, FALSE)
            = FCanon(v.s, BMulSmall(v.m, k), v.e)

\* C9 as claimed: on a table whose entries all equal the number v, daily_mean,
\* daily_max and daily_min return v for every day and daily_std returns 0.
C9_AsClaimed ==
    pc = "done" =>
        \A v \in StatsEntries :
            IsUniform(data, v) =>
                result = Return(Constant(NCols(data),
                                         IF fn = "daily_std" THEN FZero ELSE v))

\* C9 amended: on a table of P rows whose entries all equal the number v,
\* daily_max and daily_min return v for every day; daily_mean returns v and
\* daily_std returns 0 for every day when the multiples 2v, .., Pv are
\* float64 numbers (as for the integers below 2^53 / P, or for P <= 2).
C9_UniformTable ==
    pc = "done" =>
        \A v \in StatsEntries :
            IsUniform(data, v) =>
                /\ fn \in {"daily_max", "daily_min"} =>
                       result = Return(Constant(NCols(data), v))
                /\ (fn = "daily_mean" /\ ExactMultiples(v, NRows(data))) =>
                       result = Return(Constant(NCols(data), v))
                /\ (fn = "daily_std" /\ ExactMultiples(v, NRows(data))) =>
                       result = Return(Constant(NCols(data), FZero))

\* the standard deviation of three patients and one day, all -1, is 0
C9_Witness ==
    /\ pc = "done" /\ fn = "daily_std"
    /\ data = << <<FInt(-1)>>, <<FInt(-1)>>, <<FInt(-1)>> >>
    /\ result = Return(<<FZero>>)


\* the number of entries of the row r strictly greater than t
CountGreater(r, t) == Cardinality({j \in 1..Len(r) : FGt(r[j], t)})

\* C7: with a row index in 0..P-1, daily_above_threshold returns the number
\* of entries of that row strictly greater than the threshold, an entry equal
\* to the threshold not counted (so the count is at most the number of
\* entries that differ from the threshold); it is 1 for row 0 of
\* [[1,2,3],[4,5,6]] and threshold 2.
C7_CountsStrictlyGreater ==
    pc = "done" =>
        /\ (0 <= row /\ row < NRows(data)) =>
               /\ result = Return(CountGreater(data[row + 1], threshold))
               /\ result.value[1] <=
                      Cardinality({j \in 1..NCols(data) :
                                      data[row + 1][j] # threshold})
        /\ (data = ExampleTable /\ row = 0 /\ threshold = FInt(2)) =>
               result = Return(1)

\* the example of the claim has been computed
C7_Witness ==
    /\ pc = "done"
    /\ data = ExampleTable /\ row = 0 /\ threshold = FInt(2)
    /\ result = Return(1)

\* C8 as claimed: a row index outside 0..P-1 raises IndexError.
C8_AsClaimed ==
    (pc = "done" /\ ~(0 <= row /\ row < NRows(data))) =>
        result = Raise("IndexError")

\* C8 amended: a row index outside -P..P-1 raises IndexError and no count is
\* returned; a row index in -P..-1 is valid and counts from the end, the
\* count returned being that of row P + row_index.
C8_OutOfRangeRaises ==
    pc = "done" =>
        /\ (row < 0 - NRows(data) \/ row >= NRows(data)) =>
               result = Raise("IndexError")
        /\ (0 - NRows(data) <= row /\ row < 0) =>
               result = Return(CountGreater(data[NRows(data) + row + 1],
                                            threshold))

\* index -3 of a table of two rows has been refused
C8_Witness ==
    /\ pc = "done" /\ NRows(data) = 2 /\ row = 0 - 3
    /\ result = Raise("IndexError")

\* C6: attach_names raises the assertion error and returns nothing when the
\* number of names differs from the number of rows; otherwise it returns one
\* record per row, in order, record i pairing names[i] with row i.
C6_AttachNames ==
    pc = "done" =>
        IF Len(names) # Len(data)
        THEN result = Raise("AssertionError")
        ELSE /\ result.exc = "none"
             /\ Len(result.value[1]) = Len(data)
             /\ \A i \in 1..Len(data) :
                   /\ result.value[1][i].name = names[i]
                   /\ result.value[1][i].data = data[i]

\* two different rows have been paired with two different names, in order
C6_Witness ==
    /\ pc = "done"
    /\ Len(data) = 2 /\ Len(names) = 2
    /\ data[1] # data[2] /\ names[1] # names[2]
    /\ result.exc = "none"
    /\ result.value[1][2] = [name |-> names[2], data |-> data[2]]

Days(obs) == [n \in 1..Len(obs) |-> obs[n].day]

Values(obs) == [n \in 1..Len(obs) |-> obs[n].value]

\* C3: a call without a day gives day 0 on a patient without observations
\* and otherwise the last observation's day plus one, however that day was
\* set; day-less calls alone give the days 0, 1, .., n-1; and
\* add_observation(10), add_observation(20), add_observation(5, day=100) give
\* the days [0, 1, 100] with the values [10, 20, 5].
C3_DefaultDay ==
    /\ Len(observations) = Len(calls)
    /\ \A n \in 1..Len(calls) :
          calls[n].day = None =>
              observations[n].day =
                  IF n = 1 THEN 0 ELSE observations[n - 1].day + 1
    /\ (\A n \in 1..Len(calls) : calls[n].day = None) =>
           Days(observations) = [n \in 1..Len(calls) |-> n - 1]
    /\ calls = << [value |-> 10, day |-> None], [value |-> 20, day |-> None],
                  [value |-> 5, day |-> <<100>>] >> =>
           /\ Days(observations) = <<0, 1, 100>>
           /\ Values(observations) = <<10, 20, 5>>

\* a call without a day has followed a call with day 100 and received 101
C3_Witness ==
    /\ Len(calls) = 3
    /\ calls[2].day = <<100>> /\ calls[3].day = None
    /\ Days(observations) = <<0, 100, 101>>

IsOrderedByDay(obs) ==
    \A n \in 2..Len(obs) : obs[n - 1].day <= obs[n].day

\* C4 as claimed: in every reachable state the observations are ordered by
\* day.
C4_AsClaimed == IsOrderedByDay(observations)

\* C4 amended: the observations are ordered by day in every state reached by
\* calls each of which either gives no day or gives a day not smaller than
\* the day of the last observation at the time of the call (a call giving a
\* smaller day is accepted and breaks the order).
C4_OrderedUnlessSmallerDayGiven ==
    (\A n \in 2..Len(calls) :
        calls[n].day = None \/ calls[n].day[1] >= observations[n - 1].day)
    => IsOrderedByDay(observations)

\* day-less calls around a call with day 100 have kept the order
C4_Witness ==
    /\ Len(calls) = 3
    /\ calls[1].day = None /\ calls[2].day = <<100>> /\ calls[3].day = None
    /\ IsOrderedByDay(observations)
    /\ observations[3].day > observations[2].day

\* C5: every add_observation call appends exactly one observation: the
\* observations before it keep their place, day and value, the new one is
\* last, holds the value given and, when a day is given, that day as given,
\* and is what the call returns.
C5_AppendOnly ==
    [][LET call == calls'[Len(calls')]
           new  == observations'[Len(observations')]
       IN  /\ Len(calls') = Len(calls) + 1
           /\ Len(observations') = Len(observations) + 1
           /\ SubSeq(observations', 1, Len(observations)) = observations
           /\ new.value = call.value
           /\ call.day # None => new.day = call.day[1]
           /\ returned' = <<new>>]_vars

\* given days were stored out of order and twice, and the last call returned
\* the last observation
C5_Witness ==
    /\ Len(observations) = 3
    /\ calls[1].day = <<1>> /\ calls[2].day = <<0>> /\ calls[3].day = <<0>>
    /\ Days(observations) = <<1, 0, 0>>
    /\ returned = <<observations[3]>>

\* C10: a Doctor starts without patients, and after n add_patient calls the
\* list holds exactly the n arguments in call order, a patient added twice
\* being there twice.
C10_PatientsInCallOrder ==
    /\ Len(patients) = Len(added)
    /\ \A n \in 1..Len(added) : patients[n] = added[n]

\* the same patient has been added twice and is there twice
C10_Witness ==
    /\ Len(added) = 3
    /\ added[1] = added[2] /\ added[3] # added[1]
    /\ patients = added

=============================================================================
